---- MODULE Spec2Model ----
(***************************************************************************)
(* The job submission / status polling protocol of the conversion tool     *)
(* pages (PDF->JPG, Excel->PDF, HTML->PDF, PowerPoint->PDF, PDF->Excel,    *)
(* Word->PDF and the batch PDF->PowerPoint page) and of the gateway routes *)
(* they call.  One behaviour is one browser session on one page.           *)
(*                                                                         *)
(* React state is the session state; a pending setTimeout and a fetch in   *)
(* flight are elements of `loops` (status polls) and `submits` (convert    *)
(* requests).  toast.* calls are transient notifications: they are not     *)
(* part of the state a page holds and are not modelled.                    *)
(***************************************************************************)
EXTENDS Integers, Sequences, FiniteSets, TLC

\* ------------------------------------------------------------------ bounds
\* Convert clicks a single-file session makes in one behaviour.
MaxSubmits == 2
\* Files dropped on the batch page in one behaviour.
MaxFiles == 1
\* Conversions (a file waiting, a submit in flight or a polling loop alive) that
\* overlap on a page whose polling loops count attempts.
MaxOverlap == 1

\* --------------------------------------------------------- program values
maxAttempts == 60

\* null / undefined of an object-valued state, and of a string-valued one.
null == [null |-> TRUE]
NONE == "undefined"
\* result.conversion_id when the submit response carries none.
undefinedId == 0

\* A minimum that forgets the cap.
Min_uncapped(a, b) == b
Min(a, b) == IF a < b THEN a ELSE b

\* Progress values are fractions of maxAttempts (attempts / maxAttempts * 90);
\* the model holds progress * maxAttempts, which is an integer.
Pct(n) == n * maxAttempts

Pages == {"PDFToJPGPage", "ExcelToPDFPage", "HTMLToPDFPage", "PowerPointToPDFPage",
          "PDFToExcelPage", "WordToPdfPage", "PDFToPowerPointPage"}

\* A file the user picks: whether the page's type test accepts it.
Files == [accepted : BOOLEAN]

VARIABLES
  page,             \* the tool page of this session
  file,             \* file / selectedFile
  isConverting,
  progress,         \* conversionProgress / progress (times maxAttempts)
  conversionResult, \* conversionResult / result
  error,            \* error / errorMessage
  conversionStatus, \* WordToPdfPage only
  downloadUrl,      \* WordToPdfPage only
  conversionId,     \* WordToPdfPage only
  uploadedFiles,    \* PDFToPowerPointPage: id -> UploadedFile
  overallProgress,  \* PDFToPowerPointPage
  runs,             \* PDFToPowerPointPage: one entry per convertFiles call
  nFiles,           \* PDFToPowerPointPage: files dropped so far
  submits,          \* convert requests in flight
  loops,            \* polling loops: a pending timer or a status request in flight
  nSubmits,         \* convert requests issued so far
  issued,           \* history: conversion ids returned to this session by submit
  abandoned,        \* history: jobs that were being polled when reset was invoked
  last,             \* history: what the step into this state did
  gateway           \* the gateway call of a step that runs a route on its own

sessVars == <<file, isConverting, progress, conversionResult, error>>
wordVars == <<conversionStatus, downloadUrl, conversionId>>
batchVars == <<uploadedFiles, overallProgress, runs, nFiles>>
netVars == <<submits, loops, nSubmits>>
histVars == <<issued, abandoned>>
vars == <<page, sessVars, wordVars, batchVars, netVars, histVars, last, gateway>>

\* ------------------------------------------------------ the backend's replies
\* The conversion backend is an external collaborator: any of these may come
\* back.  net = "refused": the connection fails, with an exception whose
\* message names ECONNREFUSED or not (the runtime decides); json = FALSE: the
\* body is not JSON.
HttpCodes == {200, 400, 404, 422, 500, 502, 503}
BackendStatuses == {NONE, "queued", "processing", "completed", "failed"}
BackendError == "backend error"
Url == "/api/download/x/out"
Filename == "out.jpg"
Metadata == "{pages, method}"
\* {}
EmptyObject == "{}"

Refused == [net : {"refused"}, named : BOOLEAN]

BackendStatusReplies ==
  Refused
  \cup [net : {"ok"}, http : HttpCodes, json : {FALSE}]
  \cup [net : {"ok"}, http : HttpCodes \ {200}, json : {TRUE}]
  \cup {b \in [net : {"ok"}, http : {200}, json : {TRUE}, status : BackendStatuses,
               success : BOOLEAN, error : {NONE, BackendError},
               download_url : {NONE, Url}, filename : {NONE, Filename},
               metadata : {NONE, Metadata}] :
          /\ b.download_url = Url => (b.success \/ b.status = "completed")
          /\ (b.filename # NONE \/ b.metadata # NONE)
               => (b.success /\ b.status \in {NONE, "completed"})}

\* A status route that derives a download URL when the backend sent none.
StatusRoute_derived(b) ==
  IF b.net = "refused" \/ (b.http = 200 /\ ~b.json)
  THEN [http |-> 500, error |-> "Internal server error during status check",
        status |-> NONE, success |-> FALSE, download_url |-> NONE,
        filename |-> NONE, metadata |-> NONE]
  ELSE IF b.http = 404
  THEN [http |-> 404, error |-> "Conversion not found", status |-> "not_found",
        success |-> FALSE, download_url |-> NONE,
        filename |-> NONE, metadata |-> NONE]
  ELSE IF b.http # 200
  THEN [http |-> b.http, error |-> "Status check failed", status |-> NONE,
        success |-> FALSE, download_url |-> NONE,
        filename |-> NONE, metadata |-> NONE]
  ELSE [http |-> 200, error |-> b.error, success |-> b.success,
        status |-> IF b.status # NONE THEN b.status
                   ELSE IF b.success THEN "completed" ELSE "processing",
        download_url |-> IF b.download_url # NONE THEN b.download_url
                         ELSE "/api/download/x/derived",
        filename |-> b.filename,
        metadata |-> IF b.metadata # NONE THEN b.metadata ELSE EmptyObject]

\* src/app/api/status/[conversionId]/route.ts GET: what the browser receives.
StatusRoute(b) ==
  IF b.net = "refused" \/ (b.http = 200 /\ ~b.json)
  THEN [http |-> 500, error |-> "Internal server error during status check",
        status |-> NONE, success |-> FALSE, download_url |-> NONE,
        filename |-> NONE, metadata |-> NONE]
  ELSE IF b.http = 404
  THEN [http |-> 404, error |-> "Conversion not found", status |-> "not_found",
        success |-> FALSE, download_url |-> NONE,
        filename |-> NONE, metadata |-> NONE]
  ELSE IF b.http # 200
  THEN [http |-> b.http, error |-> "Status check failed", status |-> NONE,
        success |-> FALSE, download_url |-> NONE,
        filename |-> NONE, metadata |-> NONE]
  ELSE [http |-> 200, error |-> b.error, success |-> b.success,
        status |-> IF b.status # NONE THEN b.status
                   ELSE IF b.success THEN "completed" ELSE "processing",
        download_url |-> b.download_url, filename |-> b.filename,
        metadata |-> IF b.metadata # NONE THEN b.metadata ELSE EmptyObject]

\* What `await fetch(...)` followed by `await response.json()` gives the page:
\* the route's answer, or an exception when the request does not get through.
Thrown == [thrown |-> TRUE]
Received(r) == [thrown |-> FALSE] @@ r
\* A status request either does not get through to the route, or the route
\* answers it from the backend's reply b.
Lost == [net |-> "lost"]
StatusInputs == {Lost} \cup BackendStatusReplies
StatusOutcome(b) == IF b = Lost THEN Thrown ELSE Received(StatusRoute(b))
StatusOutcomes == {StatusOutcome(b) : b \in StatusInputs}

BackendSubmitReplies ==
  Refused
  \cup [net : {"ok"}, http : HttpCodes, json : {FALSE}]
  \cup [net : {"ok"}, http : HttpCodes \ {200}, json : {TRUE}, success : {FALSE},
        hasId : {FALSE}, error : {NONE, BackendError}]
  \cup [net : {"ok"}, http : {200}, json : {TRUE}, success : BOOLEAN,
        hasId : BOOLEAN, error : {NONE, BackendError}]

Answer(http, success, hasId, err) ==
  [http |-> http, success |-> success, hasId |-> hasId, error |-> err]

\* A pdf-to-jpg route that answers an empty object for a body it cannot parse.
PdfToJpgRoute_lenient(b) ==
  IF b.net = "refused"
  THEN Answer(500, FALSE, FALSE, "Internal server error during conversion")
  ELSE IF ~b.json THEN Answer(200, FALSE, FALSE, NONE)
  ELSE Answer(200, b.success, b.hasId, b.error)

\* POST /api/convert/pdf-to-jpg: the backend's body is returned with status 200
\* whatever the backend's status was.
PdfToJpgRoute(b) ==
  IF b.net = "refused" \/ ~b.json
  THEN Answer(500, FALSE, FALSE, "Internal server error during conversion")
  ELSE Answer(200, b.success, b.hasId, b.error)

\* POST /api/convert/word-to-pdf
WordToPdfRoute(b) ==
  IF b.net = "refused" \/ ~b.json
  THEN Answer(500, FALSE, FALSE, "Internal server error")
  ELSE IF b.http = 200
  THEN Answer(200, b.success, b.hasId, b.error)
  ELSE Answer(b.http, FALSE, FALSE,
              IF b.error # NONE THEN b.error ELSE "Conversion failed")

\* POST /api/convert/excel-to-pdf
ExcelToPdfRoute(b) ==
  IF b.net = "refused" THEN Answer(500, FALSE, FALSE, "fetch failed")
  ELSE IF b.http # 200 THEN Answer(500, FALSE, FALSE, "Backend responded with status")
  ELSE IF ~b.json THEN Answer(500, FALSE, FALSE, "Unexpected token")
  ELSE Answer(200, b.success, b.hasId, b.error)

\* POST /api/convert/html-to-pdf, the multipart branch the page uses
HtmlToPdfRoute(b) ==
  IF b.net = "refused" THEN Answer(500, FALSE, FALSE, "fetch failed")
  ELSE IF b.http # 200 THEN Answer(500, FALSE, FALSE, "Backend responded with status")
  ELSE IF ~b.json THEN Answer(500, FALSE, FALSE, "Unexpected token")
  ELSE Answer(200, b.success, b.hasId, b.error)

\* The submit routes of PowerPoint->PDF, PDF->Excel and PDF->PowerPoint are not
\* among the sources; they follow the gateway's submit contract: the backend's
\* answer on success, a normalized {error} otherwise, 503 when unreachable.
SubmitContractRoute(b) ==
  IF b.net = "refused"
  THEN Answer(503, FALSE, FALSE, "Conversion service is not available")
  ELSE IF ~b.json THEN Answer(500, FALSE, FALSE, "Internal server error")
  ELSE IF b.http = 200 THEN Answer(200, b.success, b.hasId, b.error)
  ELSE Answer(b.http, FALSE, FALSE,
              IF b.error # NONE THEN b.error ELSE "Conversion failed")

SubmitRoute(pg, b) ==
  CASE pg = "PDFToJPGPage" -> PdfToJpgRoute(b)
    [] pg = "WordToPdfPage" -> WordToPdfRoute(b)
    [] pg = "ExcelToPDFPage" -> ExcelToPdfRoute(b)
    [] pg = "HTMLToPDFPage" -> HtmlToPdfRoute(b)
    [] OTHER -> SubmitContractRoute(b)

SubmitOutcomes(pg) ==
  {Thrown} \cup {Received(SubmitRoute(pg, b)) : b \in BackendSubmitReplies}

\* response.ok
Ok(c) == c.http = 200

\* The conversion id a submit answer carries: the backend assigns a fresh one to
\* every job.
IdOf(c, sid) == IF c.hasId THEN sid ELSE undefinedId

\* --------------------------------------------------------- the step history
\* `last` names the step that led to the current state, for the properties that
\* speak of one: a reset, a status request being issued, the answer of a submit,
\* or a status answer that ended its loop, was `completed` or `not_found`, or
\* was an exception.
Event(act, lid, fid, job, attempts, status, success, hasError, stopped) ==
  [act |-> act, lid |-> lid, fid |-> fid, job |-> job, attempts |-> attempts,
   status |-> status, success |-> success, error |-> hasError, stopped |-> stopped,
   sent |-> NONE]
NoEvent == Event("none", 0, 0, undefinedId, 0, NONE, FALSE, FALSE, FALSE)
Reset == Event("reset", 0, 0, undefinedId, 0, NONE, FALSE, FALSE, FALSE)
Request(l) ==
  Event("request", l.lid, l.fid, l.job, l.attempts, NONE, FALSE, FALSE, FALSE)
\* A submit answer is a failure when the request threw, the response is not ok
\* or its body does not report success.
Submitted(s, c) ==
  Event("submit", s.sid, s.fid, undefinedId, 0,
        IF c.thrown THEN "thrown" ELSE IF Ok(c) /\ c.success THEN "ok" ELSE "failed",
        ~c.thrown /\ c.success, ~c.thrown /\ c.error # NONE, FALSE)
\* For a `completed` answer the event also keeps what the backend had sent.
Seen(l, b, after) ==
  LET r == StatusOutcome(b)
      status == IF r.thrown THEN "thrown" ELSE r.status
      stopped == ~\E m \in after : m.lid = l.lid
      event == Event("poll", l.lid, l.fid, l.job, l.attempts, status,
                     ~r.thrown /\ r.success, ~r.thrown /\ r.error # NONE, stopped)
  IN IF status = "completed"
     THEN [event EXCEPT !.sent = [download_url |-> b.download_url,
                                  filename |-> b.filename, metadata |-> b.metadata]]
     ELSE IF stopped \/ status \in {"thrown", "not_found"} THEN event
     ELSE NoEvent

\* No route was called on its own in the step into this state.
NoCall == [route |-> NONE]

\* ------------------------------------------------------------------- Init
Init ==
  /\ page \in Pages
  /\ file = null
  /\ isConverting = FALSE
  /\ progress = 0
  /\ conversionResult = null
  /\ error = NONE
  /\ conversionStatus = "idle"
  /\ downloadUrl = NONE
  /\ conversionId = undefinedId
  /\ uploadedFiles = << >>
  /\ overallProgress = 0
  /\ runs = << >>
  /\ nFiles = 0
  /\ submits = {}
  /\ loops = {}
  /\ nSubmits = 0
  /\ issued = {}
  /\ abandoned = {}
  /\ last = NoEvent
  /\ gateway = NoCall

\* ------------------------------------------------- shared building blocks
Submit(sid) == [sid |-> sid, fid |-> 0, rid |-> 0]
Loop(lid, job, attempts, st) ==
  [lid |-> lid, job |-> job, attempts |-> attempts, st |-> st, fid |-> 0, rid |-> 0]

\* A variant that arms the next timer while the answered request stays on, as
\* a poller arming its timer before the await would.
Schedule_keep(l, attempts) ==
  loops \cup {[l EXCEPT !.st = "timer", !.attempts = attempts]}
\* setTimeout(() => poll(...), delay) at the end of a poll whose answer asks for
\* another one: the request that was answered becomes the pending timer.
Schedule(l, attempts) ==
  (loops \ {l}) \cup {[l EXCEPT !.st = "timer", !.attempts = attempts]}

\* The loops a reset leaves behind keep running: no handler clears a timer.
JobsPolled == {l.job : l \in loops}

\* Conversions of this session that are still under way.
Overlap == Cardinality(submits) + Cardinality(loops)

\* ============================================================ PDFToJPGPage
\* handleFileSelect / handleDrop; the upload area is rendered only while no
\* file is selected.
PDFToJPG_handleFileSelect ==
  /\ page = "PDFToJPGPage"
  /\ file = null
  /\ \E f \in Files :
       IF f.accepted
       THEN /\ file' = f
            /\ error' = NONE
            /\ conversionResult' = null
       ELSE /\ error' = "Please select a PDF file."
            /\ UNCHANGED <<file, conversionResult>>
  /\ last' = NoEvent
  /\ UNCHANGED <<gateway, page, isConverting, progress, wordVars, batchVars, netVars, histVars>>

\* removeFile: the X button (shown while not converting and without a result)
\* and the "Convert Another" button of the result card.
PDFToJPG_removeFile ==
  /\ page = "PDFToJPGPage"
  /\ file # null
  /\ (~isConverting /\ conversionResult = null) \/ conversionResult # null
  /\ file' = null
  /\ conversionResult' = null
  /\ error' = NONE
  /\ abandoned' = abandoned \cup JobsPolled
  /\ last' = Reset
  /\ UNCHANGED <<gateway, page, isConverting, progress, wordVars, batchVars, netVars, issued>>

\* handleConvert up to the await of the submit request.
PDFToJPG_handleConvert ==
  /\ page = "PDFToJPGPage"
  /\ file # null /\ conversionResult = null /\ ~isConverting
  /\ nSubmits < MaxSubmits
  /\ isConverting' = TRUE
  /\ progress' = Pct(10)
  /\ error' = NONE
  /\ conversionResult' = null
  /\ nSubmits' = nSubmits + 1
  /\ submits' = submits \cup {Submit(nSubmits + 1)}
  /\ last' = NoEvent
  /\ UNCHANGED <<gateway, page, file, wordVars, batchVars, loops, histVars>>

\* handleConvert after the await; on success pollConversionStatus runs poll()
\* at once: attempts becomes 1 and the first status request is issued.
PDFToJPG_handleConvert_resume ==
  /\ page = "PDFToJPGPage"
  /\ \E s \in submits, c \in SubmitOutcomes(page) :
       /\ submits' = submits \ {s}
       /\ IF c.thrown
          THEN /\ error' = "An error occurred during conversion. Please try again."
               /\ isConverting' = FALSE
               /\ progress' = Pct(0)
               /\ UNCHANGED <<loops, issued>>
          ELSE IF Ok(c) /\ c.success
          THEN /\ progress' = Pct(20)
               /\ loops' = loops \cup {Loop(s.sid, IdOf(c, s.sid), 1, "fetch")}
               /\ issued' = IF c.hasId THEN issued \cup {s.sid} ELSE issued
               /\ UNCHANGED <<error, isConverting>>
          ELSE /\ error' = (IF c.error # NONE THEN c.error ELSE "Conversion failed")
               /\ isConverting' = FALSE
               /\ progress' = Pct(0)
               /\ UNCHANGED <<loops, issued>>
       /\ last' = Submitted(s, c)
  /\ UNCHANGED <<gateway, page, file, conversionResult, wordVars, batchVars, nSubmits, abandoned>>

\* poll, entered from the 5 s timer: attempts++ and the status request.
PDFToJPG_poll ==
  /\ page = "PDFToJPGPage"
  /\ \E l \in loops :
       /\ l.st = "timer"
       /\ loops' = (loops \ {l}) \cup {[l EXCEPT !.attempts = @ + 1, !.st = "fetch"]}
       /\ last' = Request(l)
  /\ UNCHANGED <<gateway, page, sessVars, wordVars, batchVars, submits, nSubmits, histVars>>

\* poll after the awaits of fetch and response.json().
PDFToJPG_poll_resume ==
  /\ page = "PDFToJPGPage"
  /\ \E l \in loops, b \in StatusInputs :
       LET result == StatusOutcome(b) IN
       /\ l.st = "fetch"
       /\ IF result.thrown
          THEN IF l.attempts < maxAttempts
               THEN /\ loops' = Schedule(l, l.attempts)
                    /\ UNCHANGED <<conversionResult, isConverting, progress, error>>
               ELSE /\ error' = "Failed to check conversion status"
                    /\ isConverting' = FALSE
                    /\ progress' = Pct(0)
                    /\ loops' = loops \ {l}
                    /\ UNCHANGED conversionResult
          ELSE IF result.status = "completed" /\ result.success
          THEN /\ conversionResult' = result
               /\ isConverting' = FALSE
               /\ progress' = Pct(100)
               /\ loops' = loops \ {l}
               /\ UNCHANGED error
          ELSE IF result.status = "failed" \/ result.error # NONE
          THEN /\ error' = (IF result.error # NONE THEN result.error
                                                   ELSE "Conversion failed")
               /\ isConverting' = FALSE
               /\ progress' = Pct(0)
               /\ loops' = loops \ {l}
               /\ UNCHANGED conversionResult
          ELSE IF l.attempts < maxAttempts
          THEN /\ progress' = Pct(Min(90, l.attempts * 3))
               /\ loops' = Schedule(l, l.attempts)
               /\ UNCHANGED <<conversionResult, isConverting, error>>
          ELSE /\ error' = "Conversion timeout - please try again"
               /\ isConverting' = FALSE
               /\ progress' = Pct(0)
               /\ loops' = loops \ {l}
               /\ UNCHANGED conversionResult
       /\ last' = Seen(l, b, loops')
  /\ UNCHANGED <<gateway, page, file, wordVars, batchVars, submits, nSubmits, histVars>>

PDFToJPGPage ==
  \/ PDFToJPG_handleFileSelect
  \/ PDFToJPG_removeFile
  \/ PDFToJPG_handleConvert
  \/ PDFToJPG_handleConvert_resume
  \/ PDFToJPG_poll
  \/ PDFToJPG_poll_resume

\* ============================================= ExcelToPDFPage, HTMLToPDFPage
\* The two pages run the same handlers; only the texts differ.
InvalidFileMessage(pg) ==
  IF pg = "ExcelToPDFPage" THEN "Please select a valid Excel file (.xlsx or .xls)"
  ELSE "Please select a valid HTML file (.html or .htm)"
ConvertFailedMessage(pg) ==
  IF pg = "ExcelToPDFPage" THEN "Failed to convert Excel to PDF"
  ELSE "Failed to convert HTML to PDF"

\* The object handleConvert stores when the submit fails.
FailedResult(msg) ==
  [thrown |-> FALSE, http |-> 200, success |-> FALSE, status |-> NONE, error |-> msg,
   download_url |-> NONE]

\* handleFileInputChange / handleDrop
Office_handleFileInputChange(pg) ==
  /\ page = pg
  /\ \E f \in Files :
       IF f.accepted
       THEN /\ file' = f
            /\ error' = NONE
            /\ conversionResult' = null
       ELSE /\ error' = InvalidFileMessage(pg)
            /\ UNCHANGED <<file, conversionResult>>
  /\ last' = NoEvent
  /\ UNCHANGED <<gateway, page, isConverting, progress, wordVars, batchVars, netVars, histVars>>

\* handleConvert up to the await; the button is disabled while !file || isConverting.
Office_handleConvert(pg) ==
  /\ page = pg
  /\ file # null /\ ~isConverting
  /\ nSubmits < MaxSubmits /\ Overlap < MaxOverlap
  /\ isConverting' = TRUE
  /\ progress' = Pct(10)
  /\ conversionResult' = null
  /\ error' = NONE
  /\ nSubmits' = nSubmits + 1
  /\ submits' = submits \cup {Submit(nSubmits + 1)}
  /\ last' = NoEvent
  /\ UNCHANGED <<gateway, page, file, wordVars, batchVars, loops, histVars>>

\* handleConvert after the await; success arms the 1 s timer that calls
\* pollConversionStatus, whose attempts start at 0.
Office_handleConvert_resume(pg) ==
  /\ page = pg
  /\ \E s \in submits, c \in SubmitOutcomes(pg) :
       /\ submits' = submits \ {s}
       /\ IF c.thrown
          THEN /\ conversionResult' = FailedResult(ConvertFailedMessage(pg))
               /\ isConverting' = FALSE
               /\ UNCHANGED <<progress, loops, issued>>
          ELSE IF c.success /\ c.hasId
          THEN /\ progress' = Pct(30)
               /\ loops' = loops \cup {Loop(s.sid, IdOf(c, s.sid), 0, "timer")}
               /\ issued' = issued \cup {s.sid}
               /\ UNCHANGED <<conversionResult, isConverting>>
          ELSE /\ conversionResult' =
                    FailedResult(IF c.error # NONE THEN c.error
                                                   ELSE "Failed to start conversion")
               /\ isConverting' = FALSE
               /\ UNCHANGED <<progress, loops, issued>>
       /\ last' = Submitted(s, c)
  /\ UNCHANGED <<gateway, page, file, error, wordVars, batchVars, nSubmits, abandoned>>

\* poll, entered from a timer: the status request.
Office_poll(pg) ==
  /\ page = pg
  /\ \E l \in loops :
       /\ l.st = "timer"
       /\ loops' = (loops \ {l}) \cup {[l EXCEPT !.st = "fetch"]}
       /\ last' = Request(l)
  /\ UNCHANGED <<gateway, page, sessVars, wordVars, batchVars, submits, nSubmits, histVars>>

\* poll after the awaits.  A status that is none of completed-with-success,
\* failed and processing falls through every branch: nothing is set and no
\* timer is armed.
Office_poll_resume(pg) ==
  /\ page = pg
  /\ \E l \in loops, b \in StatusInputs :
       LET result == StatusOutcome(b) IN
       /\ l.st = "fetch"
       /\ IF result.thrown
          THEN /\ isConverting' = FALSE
               /\ loops' = loops \ {l}
               /\ UNCHANGED <<conversionResult, progress>>
          ELSE IF result.status = "completed" /\ result.success
          THEN /\ progress' = Pct(100)
               /\ conversionResult' = result
               /\ isConverting' = FALSE
               /\ loops' = loops \ {l}
          ELSE IF result.status = "failed"
          THEN /\ conversionResult' = result
               /\ isConverting' = FALSE
               /\ loops' = loops \ {l}
               /\ UNCHANGED progress
          ELSE IF result.status = "processing"
          THEN /\ progress' = Min(Pct(90), l.attempts * 90)
               /\ IF l.attempts + 1 < maxAttempts
                  THEN /\ loops' = Schedule(l, l.attempts + 1)
                       /\ UNCHANGED isConverting
                  ELSE /\ isConverting' = FALSE
                       /\ loops' = loops \ {l}
               /\ UNCHANGED conversionResult
          ELSE /\ loops' = loops \ {l}
               /\ UNCHANGED <<conversionResult, isConverting, progress>>
       /\ last' = Seen(l, b, loops')
  /\ UNCHANGED <<gateway, page, file, error, wordVars, batchVars, submits, nSubmits, histVars>>

\* resetForm; the Reset button is rendered when file || conversionResult !== null.
Office_resetForm(pg) ==
  /\ page = pg
  /\ file # null \/ conversionResult # null
  /\ file' = null
  /\ isConverting' = FALSE
  /\ conversionResult' = null
  /\ progress' = Pct(0)
  /\ error' = NONE
  /\ abandoned' = abandoned \cup JobsPolled
  /\ last' = Reset
  /\ UNCHANGED <<gateway, page, wordVars, batchVars, netVars, issued>>

OfficePage(pg) ==
  \/ Office_handleFileInputChange(pg)
  \/ Office_handleConvert(pg)
  \/ Office_handleConvert_resume(pg)
  \/ Office_poll(pg)
  \/ Office_poll_resume(pg)
  \/ Office_resetForm(pg)

ExcelToPDFPage == OfficePage("ExcelToPDFPage")
HTMLToPDFPage == OfficePage("HTMLToPDFPage")

\* ====================================================== PowerPointToPDFPage
\* handleFileSelect / handleDrop; a rejected file only raises a toast.
PowerPointToPDF_handleFileSelect ==
  /\ page = "PowerPointToPDFPage"
  /\ \E f \in Files :
       IF f.accepted
       THEN /\ file' = f
            /\ conversionResult' = null
       ELSE UNCHANGED <<file, conversionResult>>
  /\ last' = NoEvent
  /\ UNCHANGED <<gateway, page, isConverting, progress, error, wordVars, batchVars, netVars,
                 histVars>>

\* handleConvert up to the await.
PowerPointToPDF_handleConvert ==
  /\ page = "PowerPointToPDFPage"
  /\ file # null /\ ~isConverting
  /\ nSubmits < MaxSubmits /\ Overlap < MaxOverlap
  /\ isConverting' = TRUE
  /\ progress' = Pct(10)
  /\ conversionResult' = null
  /\ nSubmits' = nSubmits + 1
  /\ submits' = submits \cup {Submit(nSubmits + 1)}
  /\ last' = NoEvent
  /\ UNCHANGED <<gateway, page, file, error, wordVars, batchVars, loops, histVars>>

\* handleConvert after the await; success calls pollConversionStatus, which
\* issues the first status request at once.  A failure clears the flag and
\* raises a toast.
PowerPointToPDF_handleConvert_resume ==
  /\ page = "PowerPointToPDFPage"
  /\ \E s \in submits, data \in SubmitOutcomes(page) :
       /\ submits' = submits \ {s}
       /\ IF ~data.thrown /\ data.success /\ data.hasId
          THEN /\ loops' = loops \cup {Loop(s.sid, IdOf(data, s.sid), 0, "fetch")}
               /\ issued' = issued \cup {s.sid}
               /\ UNCHANGED isConverting
          ELSE /\ isConverting' = FALSE
               /\ UNCHANGED <<loops, issued>>
       /\ last' = Submitted(s, data)
  /\ UNCHANGED <<gateway, page, file, progress, conversionResult, error, wordVars, batchVars,
                 nSubmits, abandoned>>

PowerPointToPDF_poll ==
  /\ page = "PowerPointToPDFPage"
  /\ \E l \in loops :
       /\ l.st = "timer"
       /\ loops' = (loops \ {l}) \cup {[l EXCEPT !.st = "fetch"]}
       /\ last' = Request(l)
  /\ UNCHANGED <<gateway, page, sessVars, wordVars, batchVars, submits, nSubmits, histVars>>

PowerPointToPDF_poll_resume ==
  /\ page = "PowerPointToPDFPage"
  /\ \E l \in loops, b \in StatusInputs :
       LET statusResult == StatusOutcome(b) IN
       /\ l.st = "fetch"
       /\ IF statusResult.thrown
          THEN /\ isConverting' = FALSE
               /\ loops' = loops \ {l}
               /\ UNCHANGED <<conversionResult, progress>>
          ELSE IF statusResult.status = "completed" /\ statusResult.success
          THEN /\ progress' = Pct(100)
               /\ conversionResult' = statusResult
               /\ isConverting' = FALSE
               /\ loops' = loops \ {l}
          ELSE IF statusResult.status = "failed"
          THEN /\ conversionResult' = statusResult
               /\ isConverting' = FALSE
               /\ loops' = loops \ {l}
               /\ UNCHANGED progress
          ELSE IF statusResult.status = "processing"
          THEN /\ progress' = Min(Pct(90), l.attempts * 90)
               /\ IF l.attempts + 1 < maxAttempts
                  THEN /\ loops' = Schedule(l, l.attempts + 1)
                       /\ UNCHANGED isConverting
                  ELSE /\ isConverting' = FALSE
                       /\ loops' = loops \ {l}
               /\ UNCHANGED conversionResult
          ELSE /\ loops' = loops \ {l}
               /\ UNCHANGED <<conversionResult, isConverting, progress>>
       /\ last' = Seen(l, b, loops')
  /\ UNCHANGED <<gateway, page, file, error, wordVars, batchVars, submits, nSubmits, histVars>>

\* resetConverter; its button is always rendered.
PowerPointToPDF_resetConverter ==
  /\ page = "PowerPointToPDFPage"
  /\ file' = null
  /\ isConverting' = FALSE
  /\ progress' = Pct(0)
  /\ conversionResult' = null
  /\ abandoned' = abandoned \cup JobsPolled
  /\ last' = Reset
  /\ UNCHANGED <<gateway, page, error, wordVars, batchVars, netVars, issued>>

PowerPointToPDFPage ==
  \/ PowerPointToPDF_handleFileSelect
  \/ PowerPointToPDF_handleConvert
  \/ PowerPointToPDF_handleConvert_resume
  \/ PowerPointToPDF_poll
  \/ PowerPointToPDF_poll_resume
  \/ PowerPointToPDF_resetConverter

\* ========================================================== PDFToExcelPage
\* The object the page builds for conversionResult.
ExcelResult(success, url, msg) ==
  [success |-> success, download_url |-> url, error |-> msg]

\* onDrop: react-dropzone hands over accepted files only.
PDFToExcel_onDrop ==
  /\ page = "PDFToExcelPage"
  /\ \E f \in Files :
       IF f.accepted
       THEN /\ file' = f
            /\ conversionResult' = null
       ELSE UNCHANGED <<file, conversionResult>>
  /\ last' = NoEvent
  /\ UNCHANGED <<gateway, page, isConverting, progress, error, wordVars, batchVars, netVars,
                 histVars>>

\* handleConvert up to the await; the button is replaced by Download once the
\* result is a success.
PDFToExcel_handleConvert ==
  /\ page = "PDFToExcelPage"
  /\ file # null /\ ~isConverting
  /\ ~(conversionResult # null /\ conversionResult.success)
  /\ nSubmits < MaxSubmits
  /\ isConverting' = TRUE
  /\ progress' = Pct(10)
  /\ conversionResult' = null
  /\ nSubmits' = nSubmits + 1
  /\ submits' = submits \cup {Submit(nSubmits + 1)}
  /\ last' = NoEvent
  /\ UNCHANGED <<gateway, page, file, error, wordVars, batchVars, loops, histVars>>

PDFToExcel_handleConvert_resume ==
  /\ page = "PDFToExcelPage"
  /\ \E s \in submits, result \in SubmitOutcomes(page) :
       /\ submits' = submits \ {s}
       /\ IF result.thrown
          THEN /\ conversionResult' =
                    ExcelResult(FALSE, NONE, "Failed to convert PDF to Excel")
               /\ isConverting' = FALSE
               /\ UNCHANGED <<progress, loops, issued>>
          ELSE IF result.success /\ result.hasId
          THEN /\ progress' = Pct(30)
               /\ loops' = loops \cup {Loop(s.sid, IdOf(result, s.sid), 0, "timer")}
               /\ issued' = issued \cup {s.sid}
               /\ UNCHANGED <<conversionResult, isConverting>>
          ELSE /\ conversionResult' =
                    ExcelResult(FALSE, NONE,
                                IF result.error # NONE THEN result.error
                                ELSE "Failed to start conversion")
               /\ isConverting' = FALSE
               /\ UNCHANGED <<progress, loops, issued>>
       /\ last' = Submitted(s, result)
  /\ UNCHANGED <<gateway, page, file, error, wordVars, batchVars, nSubmits, abandoned>>

\* pollConversionStatus, entered from a timer: the status request.
PDFToExcel_pollConversionStatus ==
  /\ page = "PDFToExcelPage"
  /\ \E l \in loops :
       /\ l.st = "timer"
       /\ loops' = (loops \ {l}) \cup {[l EXCEPT !.st = "fetch"]}
       /\ last' = Request(l)
  /\ UNCHANGED <<gateway, page, sessVars, wordVars, batchVars, submits, nSubmits, histVars>>

\* pollConversionStatus after the awaits: there is no attempt counter.
PDFToExcel_pollConversionStatus_resume ==
  /\ page = "PDFToExcelPage"
  /\ \E l \in loops, b \in StatusInputs :
       LET result == StatusOutcome(b) IN
       /\ l.st = "fetch"
       /\ IF result.thrown
          THEN /\ conversionResult' =
                    ExcelResult(FALSE, NONE, "Failed to check conversion status")
               /\ isConverting' = FALSE
               /\ loops' = loops \ {l}
               /\ UNCHANGED progress
          ELSE IF result.status = "completed" /\ result.success
          THEN /\ progress' = Pct(100)
               /\ conversionResult' = ExcelResult(TRUE, result.download_url, NONE)
               /\ isConverting' = FALSE
               /\ loops' = loops \ {l}
          ELSE IF result.status = "failed" \/ result.error # NONE
          THEN /\ conversionResult' =
                    ExcelResult(FALSE, NONE,
                                IF result.error # NONE THEN result.error
                                ELSE "Conversion failed")
               /\ isConverting' = FALSE
               /\ loops' = loops \ {l}
               /\ UNCHANGED progress
          ELSE /\ loops' = Schedule(l, l.attempts)
               /\ progress' = Min(progress + Pct(10), Pct(90))
               /\ UNCHANGED <<conversionResult, isConverting>>
       /\ last' = Seen(l, b, loops')
  /\ UNCHANGED <<gateway, page, file, error, wordVars, batchVars, submits, nSubmits, histVars>>

\* resetConverter: "Choose Different File" (rendered with a file) and "Convert
\* Another PDF" (rendered with a successful result).
PDFToExcel_resetConverter ==
  /\ page = "PDFToExcelPage"
  /\ file # null \/ (conversionResult # null /\ conversionResult.success)
  /\ file' = null
  /\ isConverting' = FALSE
  /\ conversionResult' = null
  /\ progress' = Pct(0)
  /\ abandoned' = abandoned \cup JobsPolled
  /\ last' = Reset
  /\ UNCHANGED <<gateway, page, error, wordVars, batchVars, netVars, issued>>

PDFToExcelPage ==
  \/ PDFToExcel_onDrop
  \/ PDFToExcel_handleConvert
  \/ PDFToExcel_handleConvert_resume
  \/ PDFToExcel_pollConversionStatus
  \/ PDFToExcel_pollConversionStatus_resume
  \/ PDFToExcel_resetConverter

\* =========================================================== WordToPdfPage
\* handleFileSelect, reached from handleDrop and handleFileInputChange.
WordToPdf_handleFileSelect ==
  /\ page = "WordToPdfPage"
  /\ \E f \in Files :
       IF f.accepted
       THEN /\ file' = f
            /\ conversionStatus' = "idle"
            /\ error' = NONE
            /\ downloadUrl' = NONE
            /\ conversionId' = undefinedId
       ELSE /\ error' = "Please select a valid Word document (.doc or .docx)."
            /\ file' = null
            /\ UNCHANGED <<conversionStatus, downloadUrl, conversionId>>
  /\ last' = NoEvent
  /\ UNCHANGED <<gateway, page, isConverting, progress, conversionResult, batchVars, netVars,
                 histVars>>

\* handleConvert up to the await: 'uploading' is overwritten by 'converting'
\* before the handler yields.
WordToPdf_handleConvert ==
  /\ page = "WordToPdfPage"
  /\ file # null /\ ~isConverting
  /\ nSubmits < MaxSubmits
  /\ isConverting' = TRUE
  /\ conversionStatus' = "converting"
  /\ error' = NONE
  /\ nSubmits' = nSubmits + 1
  /\ submits' = submits \cup {Submit(nSubmits + 1)}
  /\ last' = NoEvent
  /\ UNCHANGED <<gateway, page, file, progress, conversionResult, downloadUrl, conversionId,
                 batchVars, loops, histVars>>

\* handleConvert after the await, with its finally block.
WordToPdf_handleConvert_resume ==
  /\ page = "WordToPdfPage"
  /\ \E s \in submits, result \in SubmitOutcomes(page) :
       /\ submits' = submits \ {s}
       /\ IF result.thrown
          THEN /\ conversionStatus' = "error"
               /\ error' = "Network error. Please check your connection and try again."
               /\ UNCHANGED <<conversionId, loops, issued>>
          ELSE IF Ok(result) /\ result.success
          THEN /\ conversionId' = IdOf(result, s.sid)
               /\ loops' = loops \cup {Loop(s.sid, IdOf(result, s.sid), 0, "timer")}
               /\ issued' = IF result.hasId THEN issued \cup {s.sid} ELSE issued
               /\ UNCHANGED <<conversionStatus, error>>
          ELSE /\ conversionStatus' = "error"
               /\ error' = (IF result.error # NONE THEN result.error
                            ELSE "Conversion failed. Please try again.")
               /\ UNCHANGED <<conversionId, loops, issued>>
       /\ isConverting' = FALSE
       /\ last' = Submitted(s, result)
  /\ UNCHANGED <<gateway, page, file, progress, conversionResult, downloadUrl, batchVars,
                 nSubmits, abandoned>>

\* pollConversionStatus, entered from a timer: the status request.
WordToPdf_pollConversionStatus ==
  /\ page = "WordToPdfPage"
  /\ \E l \in loops :
       /\ l.st = "timer"
       /\ loops' = (loops \ {l}) \cup {[l EXCEPT !.st = "fetch"]}
       /\ last' = Request(l)
  /\ UNCHANGED <<gateway, page, sessVars, wordVars, batchVars, submits, nSubmits, histVars>>

\* pollConversionStatus after the awaits: success is read from result.success
\* alone, and there is no attempt counter.
WordToPdf_pollConversionStatus_resume ==
  /\ page = "WordToPdfPage"
  /\ \E l \in loops, b \in StatusInputs :
       LET result == StatusOutcome(b) IN
       /\ l.st = "fetch"
       /\ IF result.thrown
          THEN /\ conversionStatus' = "error"
               /\ error' = "Failed to check conversion status"
               /\ loops' = loops \ {l}
               /\ UNCHANGED downloadUrl
          ELSE IF result.success
          THEN /\ conversionStatus' = "success"
               /\ downloadUrl' = result.download_url
               /\ loops' = loops \ {l}
               /\ UNCHANGED error
          ELSE IF result.status = "processing"
          THEN /\ loops' = Schedule(l, l.attempts)
               /\ UNCHANGED <<conversionStatus, downloadUrl, error>>
          ELSE /\ conversionStatus' = "error"
               /\ error' = (IF result.error # NONE THEN result.error
                            ELSE "Conversion failed")
               /\ loops' = loops \ {l}
               /\ UNCHANGED downloadUrl
       /\ last' = Seen(l, b, loops')
  /\ UNCHANGED <<gateway, page, file, isConverting, progress, conversionResult, conversionId,
                 batchVars, submits, nSubmits, histVars>>

\* resetForm; rendered when file || conversionStatus !== 'idle'.
WordToPdf_resetForm ==
  /\ page = "WordToPdfPage"
  /\ file # null \/ conversionStatus # "idle"
  /\ file' = null
  /\ conversionStatus' = "idle"
  /\ error' = NONE
  /\ downloadUrl' = NONE
  /\ conversionId' = undefinedId
  /\ abandoned' = abandoned \cup JobsPolled
  /\ last' = Reset
  /\ UNCHANGED <<gateway, page, isConverting, progress, conversionResult, batchVars, netVars,
                 issued>>

WordToPdfPage ==
  \/ WordToPdf_handleFileSelect
  \/ WordToPdf_handleConvert
  \/ WordToPdf_handleConvert_resume
  \/ WordToPdf_pollConversionStatus
  \/ WordToPdf_pollConversionStatus_resume
  \/ WordToPdf_resetForm

\* ===================================================== PDFToPowerPointPage
UploadedFile(status, prog, url, err) ==
  [status |-> status, progress |-> prog, downloadUrl |-> url, error |-> err]

\* An update that forgets the test of the id: prev.map(f => ({...f, ...})).
MapFile_all(files, fid, status, prog, url, err) ==
  [k \in DOMAIN files |->
     UploadedFile(IF status = NONE THEN files[k].status ELSE status,
                  IF prog < 0 THEN files[k].progress ELSE prog,
                  IF url = NONE THEN files[k].downloadUrl ELSE url,
                  IF err = NONE THEN files[k].error ELSE err)]

\* setUploadedFiles(prev => prev.map(f => f.id === id ? {...} : f)): a file
\* that is no longer listed is not touched.
MapFile(files, fid, status, prog, url, err) ==
  IF fid \in DOMAIN files
  THEN [files EXCEPT ![fid] =
          UploadedFile(IF status = NONE THEN @.status ELSE status,
                       IF prog < 0 THEN @.progress ELSE prog,
                       IF url = NONE THEN @.downloadUrl ELSE url,
                       IF err = NONE THEN @.error ELSE err)]
  ELSE files

\* The pending files, in the order they were dropped.
RECURSIVE PendingFrom(_, _)
PendingFrom(files, k) ==
  IF k > nFiles THEN << >>
  ELSE IF k \in DOMAIN files /\ files[k].status = "pending"
       THEN <<k>> \o PendingFrom(files, k + 1)
       ELSE PendingFrom(files, k + 1)
pendingFiles == PendingFrom(uploadedFiles, 1)

\* onDrop: react-dropzone hands over the accepted files (PDF, at most 50 MB).
PDFToPowerPoint_onDrop ==
  /\ page = "PDFToPowerPointPage"
  /\ nFiles < MaxFiles /\ Len(pendingFiles) + Overlap < MaxOverlap
  /\ \E f \in Files :
       IF f.accepted
       THEN /\ nFiles' = nFiles + 1
            /\ uploadedFiles' =
                 uploadedFiles @@ ((nFiles + 1) :> UploadedFile("pending", 0, NONE, NONE))
       ELSE UNCHANGED <<nFiles, uploadedFiles>>
  /\ last' = NoEvent
  /\ UNCHANGED <<gateway, page, sessVars, wordVars, overallProgress, runs, netVars, histVars>>

\* removeFile; its button is rendered for pending files.
PDFToPowerPoint_removeFile ==
  /\ page = "PDFToPowerPointPage"
  /\ \E id \in DOMAIN uploadedFiles :
       /\ uploadedFiles[id].status = "pending"
       /\ uploadedFiles' = [k \in DOMAIN uploadedFiles \ {id} |-> uploadedFiles[k]]
  /\ last' = NoEvent
  /\ UNCHANGED <<gateway, page, sessVars, wordVars, overallProgress, runs, nFiles, netVars,
                 histVars>>

\* changeFiles; rendered while files are listed.
PDFToPowerPoint_changeFiles ==
  /\ page = "PDFToPowerPointPage"
  /\ DOMAIN uploadedFiles # {}
  /\ uploadedFiles' = << >>
  /\ overallProgress' = Pct(0)
  /\ abandoned' = abandoned \cup JobsPolled
  /\ last' = Reset
  /\ UNCHANGED <<gateway, page, sessVars, wordVars, runs, nFiles, netVars, issued>>

\* The body of the for loop of convertFiles up to its await: the next file of
\* the snapshot is marked converting and submitted; after the last one the
\* batch flag is cleared.
SubmitNext(files, rid, queue, conv) ==
  IF queue = << >>
  THEN /\ isConverting' = FALSE
       /\ uploadedFiles' = files
       /\ submits' = submits \ {s \in submits : s.rid = rid}
       /\ UNCHANGED nSubmits
  ELSE /\ isConverting' = conv
       /\ uploadedFiles' = MapFile(files, Head(queue), "converting", 0, NONE, NONE)
       /\ nSubmits' = nSubmits + 1
       /\ submits' = (submits \ {s \in submits : s.rid = rid}) \cup
                     {[sid |-> nSubmits + 1, fid |-> Head(queue), rid |-> rid]}

\* convertFiles up to the first await; the button is rendered while a file is
\* pending and disabled while isConverting.
PDFToPowerPoint_convertFiles ==
  /\ page = "PDFToPowerPointPage"
  /\ pendingFiles # << >> /\ ~isConverting
  /\ overallProgress' = Pct(0)
  /\ runs' = Append(runs, [total |-> Len(pendingFiles), completedCount |-> 0,
                           queue |-> Tail(pendingFiles)])
  /\ SubmitNext(uploadedFiles, Len(runs) + 1, pendingFiles, TRUE)
  /\ last' = NoEvent
  /\ UNCHANGED <<gateway, page, file, progress, conversionResult, error, wordVars, nFiles,
                 loops, histVars>>

\* convertFiles after an await of the loop: the answer for one file, then the
\* next iteration.
PDFToPowerPoint_convertFiles_resume ==
  /\ page = "PDFToPowerPointPage"
  /\ \E s \in submits, result \in SubmitOutcomes(page) :
       LET queue == runs[s.rid].queue
           started == ~result.thrown /\ Ok(result) /\ result.success
           files == IF result.thrown \/ ~Ok(result)
                    THEN MapFile(uploadedFiles, s.fid, "error", -1, NONE, "Network error")
                    ELSE IF result.success THEN uploadedFiles
                    ELSE MapFile(uploadedFiles, s.fid, "error", -1, NONE,
                                 IF result.error # NONE THEN result.error
                                 ELSE "Conversion failed")
       IN /\ loops' = IF started
                      THEN loops \cup {[lid |-> s.sid, job |-> IdOf(result, s.sid),
                                        attempts |-> 0, st |-> "timer",
                                        fid |-> s.fid, rid |-> s.rid]}
                      ELSE loops
          /\ issued' = IF started /\ result.hasId THEN issued \cup {s.sid} ELSE issued
          /\ runs' = [runs EXCEPT ![s.rid].queue = IF queue = << >> THEN queue
                                                   ELSE Tail(queue)]
          /\ SubmitNext(files, s.rid, queue, isConverting)
          /\ last' = Submitted(s, result)
  /\ UNCHANGED <<gateway, page, file, progress, conversionResult, error, wordVars,
                 overallProgress, nFiles, abandoned>>

\* pollStatus, entered from a timer: the status request.
PDFToPowerPoint_pollStatus ==
  /\ page = "PDFToPowerPointPage"
  /\ \E l \in loops :
       /\ l.st = "timer"
       /\ loops' = (loops \ {l}) \cup {[l EXCEPT !.st = "fetch"]}
       /\ last' = Request(l)
  /\ UNCHANGED <<gateway, page, sessVars, wordVars, batchVars, submits, nSubmits, histVars>>

\* pollStatus after the awaits.
PDFToPowerPoint_pollStatus_resume ==
  /\ page = "PDFToPowerPointPage"
  /\ \E l \in loops, b \in StatusInputs :
       LET statusData == StatusOutcome(b) IN
       /\ l.st = "fetch"
       /\ IF statusData.thrown
          THEN /\ uploadedFiles' = MapFile(uploadedFiles, l.fid, "error", -1, NONE,
                                           "Failed to check conversion status")
               /\ loops' = loops \ {l}
               /\ UNCHANGED <<runs, overallProgress>>
          ELSE IF statusData.status = "completed" /\ statusData.success
          THEN /\ runs' = [runs EXCEPT ![l.rid].completedCount = @ + 1]
               /\ overallProgress' =
                    ((runs[l.rid].completedCount + 1) * Pct(100)) \div runs[l.rid].total
               /\ uploadedFiles' = MapFile(uploadedFiles, l.fid, "completed", Pct(100),
                                           statusData.download_url, NONE)
               /\ loops' = loops \ {l}
          ELSE IF statusData.status = "failed"
          THEN /\ uploadedFiles' =
                    MapFile(uploadedFiles, l.fid, "error", -1, NONE,
                            IF statusData.error # NONE THEN statusData.error
                            ELSE "Conversion failed")
               /\ loops' = loops \ {l}
               /\ UNCHANGED <<runs, overallProgress>>
          ELSE IF l.attempts < maxAttempts
          THEN /\ uploadedFiles' =
                    MapFile(uploadedFiles, l.fid, NONE,
                            Min(Pct(90), l.attempts * 80 + Pct(10)), NONE, NONE)
               /\ loops' = Schedule(l, l.attempts + 1)
               /\ UNCHANGED <<runs, overallProgress>>
          ELSE /\ uploadedFiles' = MapFile(uploadedFiles, l.fid, "error", -1, NONE,
                                           "Conversion timeout. Please try again.")
               /\ loops' = loops \ {l}
               /\ UNCHANGED <<runs, overallProgress>>
       /\ last' = Seen(l, b, loops')
  /\ UNCHANGED <<gateway, page, sessVars, wordVars, nFiles, submits, nSubmits, histVars>>

PDFToPowerPointPage ==
  \/ PDFToPowerPoint_onDrop
  \/ PDFToPowerPoint_removeFile
  \/ PDFToPowerPoint_changeFiles
  \/ PDFToPowerPoint_convertFiles
  \/ PDFToPowerPoint_convertFiles_resume
  \/ PDFToPowerPoint_pollStatus
  \/ PDFToPowerPoint_pollStatus_resume

Next ==
  \/ PDFToJPGPage
  \/ ExcelToPDFPage
  \/ HTMLToPDFPage
  \/ PowerPointToPDFPage
  \/ PDFToExcelPage
  \/ WordToPdfPage
  \/ PDFToPowerPointPage

Spec == Init /\ [][Next]_vars

\* ================================================================ one batch
\* A batch of two files in the middle of convertFiles, when the polling of the
\* two files overlaps: file 1 was submitted and has been answered `processing`
\* on all but the last of its attempts, its next poll is due; the for loop has
\* moved on to file 2, whose submit request is still on its way (a slow
\* upload).  From here the two files finish in either order.
BatchInit ==
  /\ page = "PDFToPowerPointPage"
  /\ file = null
  /\ isConverting = TRUE
  /\ progress = 0
  /\ conversionResult = null
  /\ error = NONE
  /\ conversionStatus = "idle"
  /\ downloadUrl = NONE
  /\ conversionId = undefinedId
  /\ uploadedFiles =
       <<UploadedFile("converting",
                      Min(Pct(90), (maxAttempts - 2) * 80 + Pct(10)), NONE, NONE),
         UploadedFile("converting", 0, NONE, NONE)>>
  /\ overallProgress = 0
  /\ runs = <<[total |-> 2, completedCount |-> 0, queue |-> << >>]>>
  /\ nFiles = 2
  /\ submits = {[sid |-> 2, fid |-> 2, rid |-> 1]}
  /\ loops = {[lid |-> 1, job |-> 1, attempts |-> maxAttempts - 1, st |-> "timer",
               fid |-> 1, rid |-> 1]}
  /\ nSubmits = 2
  /\ issued = {1}
  /\ abandoned = {}
  /\ last = NoEvent
  /\ gateway = NoCall

BatchNext ==
  \/ PDFToPowerPoint_convertFiles_resume
  \/ PDFToPowerPoint_pollStatus
  \/ PDFToPowerPoint_pollStatus_resume

BatchSpec == BatchInit /\ [][BatchNext]_vars

\* ========================================================== the gateway routes
\* The routes are stateless: a behaviour of the gateway is one request to one
\* route, with the form it carries and whatever the backend does with the
\* forwarded request.

\* The multipart form of a convert request: whether it holds a file, whether
\* the file passes the route's type test, whether it is above 50 MB.
Requests == [hasFile : BOOLEAN, accepted : BOOLEAN, oversize : BOOLEAN]

Call(route, req, forwarded, backend, response) ==
  [route |-> route, req |-> req, forwarded |-> forwarded, backend |-> backend,
   response |-> response]

\* error.message.includes('ECONNREFUSED')
Unavailable(b) == b.net = "refused" /\ b.named

\* POST /api/convert/pdf-to-word: the backend's body with the backend's status.
PdfToWordRoute(b) ==
  IF b.net = "refused" \/ ~b.json
  THEN Answer(500, FALSE, FALSE, "Internal server error")
  ELSE Answer(b.http, b.success, b.hasId, b.error)

\* POST /api/convert/pdf-to-word/batch
BatchRoute(b) ==
  IF Unavailable(b) THEN Answer(503, FALSE, FALSE, "Backend service is not available")
  ELSE IF b.net = "refused" THEN Answer(500, FALSE, FALSE, "Internal server error")
  ELSE IF b.http # 200 THEN Answer(b.http, FALSE, FALSE, "Backend error")
  ELSE IF ~b.json THEN Answer(500, FALSE, FALSE, "Internal server error")
  ELSE Answer(b.http, b.success, b.hasId, b.error)

\* GET /api/status/[conversionId], the variant that hands the body through.
\* A proxy that fills in a missing status the way the status route does.
StatusProxyRoute_filled(b) ==
  IF Unavailable(b)
  THEN [http |-> 503, error |-> "Conversion service is not available",
        status |-> NONE, success |-> FALSE, download_url |-> NONE,
        filename |-> NONE, metadata |-> NONE]
  ELSE IF b.net = "ok" /\ b.http = 200 /\ b.json
  THEN [http |-> 200, error |-> b.error, success |-> b.success,
        status |-> IF b.status # NONE THEN b.status
                   ELSE IF b.success THEN "completed" ELSE "processing",
        download_url |-> b.download_url, filename |-> b.filename,
        metadata |-> b.metadata]
  ELSE StatusRoute(b)

StatusProxyRoute(b) ==
  IF Unavailable(b)
  THEN [http |-> 503, error |-> "Conversion service is not available",
        status |-> NONE, success |-> FALSE, download_url |-> NONE,
        filename |-> NONE, metadata |-> NONE]
  ELSE IF b.net = "refused" \/ (b.http = 200 /\ ~b.json)
  THEN [http |-> 500, error |-> "Internal server error during status check",
        status |-> NONE, success |-> FALSE, download_url |-> NONE,
        filename |-> NONE, metadata |-> NONE]
  ELSE IF b.http = 404
  THEN [http |-> 404, error |-> "Conversion not found", status |-> NONE,
        success |-> FALSE, download_url |-> NONE,
        filename |-> NONE, metadata |-> NONE]
  ELSE IF b.http # 200
  THEN [http |-> b.http, error |-> "Status check error", status |-> NONE,
        success |-> FALSE, download_url |-> NONE,
        filename |-> NONE, metadata |-> NONE]
  ELSE [http |-> 200, error |-> b.error, success |-> b.success, status |-> b.status,
        download_url |-> b.download_url, filename |-> b.filename,
        metadata |-> b.metadata]

\* The convert routes that test the form before they forward it.
NoFile == Answer(400, FALSE, FALSE, "No file provided")
WrongType == Answer(400, FALSE, FALSE, "File must be a PDF / a Word document")
Tested(req) == IF ~req.hasFile THEN NoFile ELSE WrongType
Passes(req) == req.hasFile /\ req.accepted

PdfToWord_POST ==
  /\ gateway = NoCall
  /\ \E req \in Requests, b \in BackendSubmitReplies :
       gateway' = Call("pdf-to-word", req, TRUE, b, PdfToWordRoute(b))
  /\ UNCHANGED <<page, sessVars, wordVars, batchVars, netVars, histVars, last>>

Batch_POST ==
  /\ gateway = NoCall
  /\ \E req \in Requests, b \in BackendSubmitReplies :
       gateway' = Call("pdf-to-word/batch", req, TRUE, b, BatchRoute(b))
  /\ UNCHANGED <<page, sessVars, wordVars, batchVars, netVars, histVars, last>>

WordToPdf_POST ==
  /\ gateway = NoCall
  /\ \E req \in Requests, b \in BackendSubmitReplies :
       gateway' = IF Passes(req)
                  THEN Call("word-to-pdf", req, TRUE, b, WordToPdfRoute(b))
                  ELSE Call("word-to-pdf", req, FALSE, NONE, Tested(req))
  /\ UNCHANGED <<page, sessVars, wordVars, batchVars, netVars, histVars, last>>

PdfToJpg_POST ==
  /\ gateway = NoCall
  /\ \E req \in Requests, b \in BackendSubmitReplies :
       gateway' = IF Passes(req)
                  THEN Call("pdf-to-jpg", req, TRUE, b, PdfToJpgRoute(b))
                  ELSE Call("pdf-to-jpg", req, FALSE, NONE, Tested(req))
  /\ UNCHANGED <<page, sessVars, wordVars, batchVars, netVars, histVars, last>>

ExcelToPdf_POST ==
  /\ gateway = NoCall
  /\ \E req \in Requests, b \in BackendSubmitReplies :
       gateway' = Call("excel-to-pdf", req, TRUE, b, ExcelToPdfRoute(b))
  /\ UNCHANGED <<page, sessVars, wordVars, batchVars, netVars, histVars, last>>

HtmlToPdf_POST ==
  /\ gateway = NoCall
  /\ \E req \in Requests, b \in BackendSubmitReplies :
       gateway' = Call("html-to-pdf", req, TRUE, b, HtmlToPdfRoute(b))
  /\ UNCHANGED <<page, sessVars, wordVars, batchVars, netVars, histVars, last>>

Status_GET ==
  /\ gateway = NoCall
  /\ \E b \in BackendStatusReplies :
       gateway' = Call("status", NONE, TRUE, b, StatusRoute(b))
  /\ UNCHANGED <<page, sessVars, wordVars, batchVars, netVars, histVars, last>>

StatusProxy_GET ==
  /\ gateway = NoCall
  /\ \E b \in BackendStatusReplies :
       gateway' = Call("status-proxy", NONE, TRUE, b, StatusProxyRoute(b))
  /\ UNCHANGED <<page, sessVars, wordVars, batchVars, netVars, histVars, last>>

\* GET /api/download/[downloadId]/[filename].  A filename is the sequence of
\* its parts, the last one being its suffix.
Filenames ==
  {<<"out", s>> : s \in {".pdf", ".docx", ".pptx", ".xlsx", ".jpg", ".jpeg", ".zip",
                         ".txt", ".PDF", ".doc", "pdf"}}
  \cup {<<"out">>, <<"out", ".pdf", ".bak">>, <<"out", ".tar", ".zip">>}
Bytes == {"bytes A", "bytes B"}
DownloadCodes == {200, 206, 404, 500, 502}
BackendDownloadReplies ==
  Refused \cup [net : {"ok"}, http : DownloadCodes, bytes : Bytes]

\* response.ok
OkCode(h) == h \in 200..299

\* filename.endsWith(suffix)
EndsWith(filename, suffix) == filename[Len(filename)] = suffix

\* A table that leaves out the .jpeg spelling.
ContentType_short(filename) ==
  IF EndsWith(filename, ".pdf") THEN "application/pdf"
  ELSE IF EndsWith(filename, ".docx")
  THEN "application/vnd.openxmlformats-officedocument.wordprocessingml.document"
  ELSE IF EndsWith(filename, ".pptx")
  THEN "application/vnd.openxmlformats-officedocument.presentationml.presentation"
  ELSE IF EndsWith(filename, ".xlsx")
  THEN "application/vnd.openxmlformats-officedocument.spreadsheetml.sheet"
  ELSE IF EndsWith(filename, ".jpg") THEN "image/jpeg"
  ELSE IF EndsWith(filename, ".zip") THEN "application/zip"
  ELSE "application/octet-stream"

ContentType(filename) ==
  IF EndsWith(filename, ".pdf") THEN "application/pdf"
  ELSE IF EndsWith(filename, ".docx")
  THEN "application/vnd.openxmlformats-officedocument.wordprocessingml.document"
  ELSE IF EndsWith(filename, ".pptx")
  THEN "application/vnd.openxmlformats-officedocument.presentationml.presentation"
  ELSE IF EndsWith(filename, ".xlsx")
  THEN "application/vnd.openxmlformats-officedocument.spreadsheetml.sheet"
  ELSE IF EndsWith(filename, ".jpg") \/ EndsWith(filename, ".jpeg") THEN "image/jpeg"
  ELSE IF EndsWith(filename, ".zip") THEN "application/zip"
  ELSE "application/octet-stream"

DownloadError(http, msg) ==
  [http |-> http, error |-> msg, bytes |-> NONE, contentType |-> "application/json",
   disposition |-> NONE]

\* A download route that answers every backend failure as a missing file.
DownloadRoute_notFound(filename, b) ==
  IF Unavailable(b) THEN DownloadError(503, "Download service is not available")
  ELSE IF b.net = "refused" THEN DownloadError(500, "Internal server error during download")
  ELSE IF ~OkCode(b.http) THEN DownloadError(404, "File not found or has expired")
  ELSE [http |-> 200, error |-> NONE, bytes |-> b.bytes,
        contentType |-> ContentType(filename), disposition |-> "attachment"]

DownloadRoute(filename, b) ==
  IF Unavailable(b) THEN DownloadError(503, "Download service is not available")
  ELSE IF b.net = "refused" THEN DownloadError(500, "Internal server error during download")
  ELSE IF ~OkCode(b.http)
  THEN IF b.http = 404 THEN DownloadError(404, "File not found or has expired")
       ELSE DownloadError(b.http, "Download error")
  ELSE [http |-> 200, error |-> NONE, bytes |-> b.bytes,
        contentType |-> ContentType(filename), disposition |-> "attachment"]

Download_GET ==
  /\ gateway = NoCall
  /\ \E filename \in Filenames, b \in BackendDownloadReplies :
       gateway' = Call("download", filename, TRUE, b, DownloadRoute(filename, b))
  /\ UNCHANGED <<page, sessVars, wordVars, batchVars, netVars, histVars, last>>

\* PowerPointToPDFPage.handleDownload, the one download handler that fetches
\* the URL itself: without a stored download_url it returns at once; the fetch
\* may fail in the browser; the body is saved (`saved`) only when response.ok.
PowerPointToPDF_handleDownload ==
  /\ gateway = NoCall
  /\ \E held \in BOOLEAN, filename \in Filenames,
        b \in {Lost} \cup BackendDownloadReplies :
       gateway' =
         IF ~held
         THEN Call("handleDownload", NONE, FALSE, NONE, [saved |-> NONE])
         ELSE IF b = Lost
         THEN Call("handleDownload", filename, FALSE, b, [saved |-> NONE])
         ELSE LET response == DownloadRoute(filename, b)
              IN Call("handleDownload", filename, TRUE, b,
                      response @@ [saved |-> IF OkCode(response.http)
                                             THEN response.bytes ELSE NONE])
  /\ UNCHANGED <<page, sessVars, wordVars, batchVars, netVars, histVars, last>>

GatewayNext ==
  \/ PdfToWord_POST
  \/ Batch_POST
  \/ WordToPdf_POST
  \/ PdfToJpg_POST
  \/ ExcelToPdf_POST
  \/ HtmlToPdf_POST
  \/ Status_GET
  \/ StatusProxy_GET
  \/ Download_GET
  \/ PowerPointToPDF_handleDownload

GatewaySpec == Init /\ [][GatewayNext]_vars

\* ============================================================ session states
\* What the page shows for the conversion of file `fid` (0 on the single-file
\* pages): the converting state, the success card, the stored error message.
Converting(fid) ==
  CASE page = "PDFToPowerPointPage" ->
         fid \in DOMAIN uploadedFiles /\ uploadedFiles[fid].status = "converting"
    [] page = "WordToPdfPage" -> isConverting \/ conversionStatus = "converting"
    [] OTHER -> isConverting

Succeeded(fid) ==
  CASE page = "PDFToPowerPointPage" ->
         fid \in DOMAIN uploadedFiles /\ uploadedFiles[fid].status = "completed"
    [] page = "WordToPdfPage" -> conversionStatus = "success"
    [] page = "PDFToJPGPage" -> conversionResult # null
    [] OTHER -> conversionResult # null /\ conversionResult.success

StoredError(fid) ==
  CASE page = "PDFToPowerPointPage" ->
         IF fid \in DOMAIN uploadedFiles /\ uploadedFiles[fid].status = "error"
         THEN uploadedFiles[fid].error ELSE NONE
    [] page = "WordToPdfPage" ->
         IF conversionStatus = "error" THEN error ELSE NONE
    [] page = "PDFToJPGPage" -> error
    [] OTHER ->
         IF conversionResult # null /\ ~conversionResult.success
         THEN conversionResult.error ELSE NONE

Failed(fid) == ~Converting(fid) /\ ~Succeeded(fid) /\ StoredError(fid) # NONE

\* ================================================================= fairness
\* Responses are delivered and timers fire: every step that is not the user's.
Delivery ==
  \/ PDFToJPG_handleConvert_resume \/ PDFToJPG_poll \/ PDFToJPG_poll_resume
  \/ \E pg \in {"ExcelToPDFPage", "HTMLToPDFPage"} :
        Office_handleConvert_resume(pg) \/ Office_poll(pg) \/ Office_poll_resume(pg)
  \/ PowerPointToPDF_handleConvert_resume \/ PowerPointToPDF_poll
  \/ PowerPointToPDF_poll_resume
  \/ PDFToExcel_handleConvert_resume \/ PDFToExcel_pollConversionStatus
  \/ PDFToExcel_pollConversionStatus_resume
  \/ WordToPdf_handleConvert_resume \/ WordToPdf_pollConversionStatus
  \/ WordToPdf_pollConversionStatus_resume
  \/ PDFToPowerPoint_convertFiles_resume \/ PDFToPowerPoint_pollStatus
  \/ PDFToPowerPoint_pollStatus_resume

FairSpec == Init /\ [][Next]_vars /\ WF_vars(Delivery)

\* ==================================================================== claims
\* C1: once a session polls, and as long as the user does not reset it, the
\* polling loop eventually stops: no timer stays pending and no status request
\* stays in flight.
C1_PollingEnds ==
  (loops # {} /\ abandoned = {}) ~> (loops = {} \/ abandoned # {})

\* The pages whose poller counts attempts against maxAttempts.
Budgeted == {"PDFToJPGPage", "ExcelToPDFPage", "HTMLToPDFPage", "PowerPointToPDFPage",
             "PDFToPowerPointPage"}

\* The poller's own test that no attempt is left, on the attempts counter the
\* answered request ran with.
BudgetSpent(attempts) ==
  CASE page \in {"PDFToJPGPage", "PDFToPowerPointPage"} -> ~(attempts < maxAttempts)
    [] OTHER -> ~(attempts + 1 < maxAttempts)

\* The messages the pollers store when the budget runs out.
TimeoutMessages == {"Conversion timeout - please try again",
                    "Conversion timeout. Please try again."}

\* The conversion the last step was about is still the session's: it was not
\* abandoned by a reset and, on the batch page, its file is still listed.
Current ==
  /\ last.job \notin abandoned
  /\ page = "PDFToPowerPointPage" => last.fid \in DOMAIN uploadedFiles

\* The pages whose convert route is among the sources of the repository (the
\* routes of the other pages follow the gateway contract, SubmitContractRoute).
Sourced == {"PDFToJPGPage", "ExcelToPDFPage", "HTMLToPDFPage", "WordToPdfPage"}

\* C2: when a budgeted poller stops on a plain `processing` answer because no
\* attempt is left, the session is failed and holds a stored timeout message
\* (stated for the budgeted pages whose code is all in the sources).
C2_TimeoutStored ==
  (/\ page \in Budgeted \cap Sourced
   /\ last.act = "poll" /\ last.status = "processing" /\ ~last.error
   /\ last.stopped /\ BudgetSpent(last.attempts)
   /\ Current)
    => Failed(last.fid) /\ StoredError(last.fid) \in TimeoutMessages

\* C3: a status answer whose status is `completed` moves the session to
\* succeeded in that very step and ends the polling loop.
C3_CompletedSucceeds ==
  (last.act = "poll" /\ last.status = "completed" /\ Current)
    => Succeeded(last.fid) /\ last.stopped

\* C4: a status request that throws while attempts remain leaves the session
\* converting and the next poll scheduled (stated for the budgeted pages whose
\* code is all in the sources).
C4_TransportErrorRetried ==
  (/\ page \in Budgeted \cap Sourced
   /\ last.act = "poll" /\ last.status = "thrown"
   /\ ~BudgetSpent(last.attempts)
   /\ Current)
    => ~last.stopped /\ Converting(last.fid)

C6_SubmitFailureFails ==
  (/\ last.act = "submit" /\ last.status \in {"failed", "thrown"}
   /\ page = "PDFToPowerPointPage" => last.fid \in DOMAIN uploadedFiles)
    => Failed(last.fid) /\ \A l \in loops : l.lid # last.lid

\* C7: every polling loop polls a conversion id that a submit answer of this
\* session carried.
C7_PolledIdWasIssued ==
  \A l \in loops : l.job \in issued

\* C8: a status answer whose status is not `completed` does not leave the
\* session succeeded (stated for the pages whose code is all in the sources).
C8_SuccessOnlyOnCompleted ==
  (page \in Sourced /\ last.act = "poll" /\ last.status # "completed" /\ Current)
    => ~Succeeded(last.fid)

\* C9: no status request is issued for a job that was being polled when the
\* session was reset.
C9_ResetStopsPolling ==
  last.act = "request" => last.job \notin abandoned

\* The state of a page on which nothing was selected or converted yet.
Idle ==
  /\ file = null /\ ~isConverting /\ progress = 0
  /\ conversionResult = null /\ error = NONE
  /\ conversionStatus = "idle" /\ downloadUrl = NONE /\ conversionId = undefinedId
  /\ uploadedFiles = << >> /\ overallProgress = 0

\* C10: a reset, from whatever state it is invoked, leaves the idle state.
C10_ResetYieldsIdle ==
  last.act = "reset" => Idle

\* C11: a status answer `not_found` (the route's 404) ends the polling loop and
\* leaves the session failed (stated for the pages whose code is all in the
\* sources).
C11_NotFoundTerminal ==
  (page \in Sourced /\ last.act = "poll" /\ last.status = "not_found" /\ Current)
    => last.stopped /\ Failed(last.fid)

\* ============================================================ gateway claims

\* C12: when the backend cannot be reached (connection refused, the exception
\* naming ECONNREFUSED), the route called answers 503.
C12_UnreachableIs503 ==
  (gateway # NoCall /\ gateway.forwarded /\ Unavailable(gateway.backend))
    => gateway.response.http = 503

\* C13: an error response of a route, whatever the backend's HTTP status was,
\* has a status among 400, 404, 500, 503 and a body with an `error` string
\* (stated for backend answers whose JSON body, if any, names an error).
C13_ErrorEnvelope ==
  (gateway # NoCall /\ gateway.forwarded /\ gateway.backend.net = "ok"
     /\ (("json" \in DOMAIN gateway.backend /\ gateway.backend.json)
           => gateway.backend.error # NONE)
     /\ gateway.response.http # 200)
    => (gateway.response.http \in {400, 404, 500, 503}
        /\ gateway.response.error # NONE)

\* C14: when the backend's body is not valid JSON, on any HTTP status, a route
\* that reads the body as JSON still answers, and its answer is an error
\* envelope (a non-200 status and an `error` string), never a success payload.
C14_MalformedBodyIsError ==
  (gateway # NoCall /\ gateway.forwarded /\ gateway.backend.net = "ok"
     /\ "json" \in DOMAIN gateway.backend /\ ~gateway.backend.json)
    => (gateway.response.http # 200 /\ gateway.response.error # NONE)

\* The pdf-to-jpg route was handed a 200 answer whose body is not JSON.
C14_Witness ==
  /\ gateway.route = "pdf-to-jpg"
  /\ gateway.forwarded
  /\ gateway.backend.net = "ok"
  /\ gateway.backend.http = 200
  /\ ~gateway.backend.json
  /\ gateway.response.http = 500

\* C20: the download route answers 200 with the backend's bytes exactly when
\* the backend answered with a 2xx status; a 200 answer is always an attachment
\* whose Content-Type is chosen by the filename's suffix, application/octet-stream
\* for any other suffix.
C20_DownloadPassThrough ==
  gateway.route = "download" =>
    LET SuffixType ==
        [s \in {".pdf", ".docx", ".pptx", ".xlsx", ".jpg", ".jpeg", ".zip"} |->
           CASE s = ".pdf" -> "application/pdf"
             [] s = ".docx" ->
                  "application/vnd.openxmlformats-officedocument.wordprocessingml.document"
             [] s = ".pptx" ->
                  "application/vnd.openxmlformats-officedocument.presentationml.presentation"
             [] s = ".xlsx" ->
                  "application/vnd.openxmlformats-officedocument.spreadsheetml.sheet"
             [] s \in {".jpg", ".jpeg"} -> "image/jpeg"
             [] s = ".zip" -> "application/zip"]
        b == gateway.backend
        r == gateway.response
        suffix == gateway.req[Len(gateway.req)]
        served == b.net = "ok" /\ b.http \in 200..299
    IN /\ (r.http = 200) <=> served
       /\ served =>
            /\ r.bytes = b.bytes
            /\ r.disposition = "attachment"
            /\ r.contentType = IF suffix \in DOMAIN SuffixType THEN SuffixType[suffix]
                               ELSE "application/octet-stream"

\* A file with a suffix outside the table was served from a 206 answer.
C20_Witness ==
  /\ gateway.route = "download"
  /\ gateway.backend.net = "ok"
  /\ gateway.backend.http = 206
  /\ gateway.req = <<"out", ".PDF">>
  /\ gateway.response.http = 200
  /\ gateway.response.bytes = gateway.backend.bytes
  /\ gateway.response.contentType = "application/octet-stream"

\* C16: a convert route does not forward a file above the size limit to the
\* backend (stated for files of the accepted type).
C16_OversizeNotForwarded ==
  (/\ gateway.route \in {"pdf-to-word", "pdf-to-word/batch", "word-to-pdf",
                          "pdf-to-jpg", "excel-to-pdf", "html-to-pdf"}
   /\ gateway.req.hasFile /\ gateway.req.accepted /\ gateway.req.oversize)
    => ~gateway.forwarded

\* ============================================================ session claims

\* C15: while the validation error of a rejected file selection is recorded, no
\* step of the session sends a submit request, whether or not a valid file had
\* been selected before.
C15_NoSubmitAfterRejection ==
  [][(error \in {InvalidFileMessage(pg) : pg \in Pages}
                  \cup {"Please select a PDF file.",
                        "Please select a valid Word document (.doc or .docx)."})
       => nSubmits' = nSubmits]_vars

\* C17: a step that ends a conversion without success (a failed or thrown
\* submit, a poll that stops its loop) never just clears the converting flag:
\* the session then holds a stored error message (stated for the pages whose
\* code is all in the sources).
C17_FailureStoresMessage ==
  (/\ page \in Sourced
   /\ \/ last.act = "poll" /\ last.stopped /\ Current
      \/ last.act = "submit" /\ last.status \in {"failed", "thrown"}
   /\ ~Converting(last.fid) /\ ~Succeeded(last.fid))
    => StoredError(last.fid) # NONE

\* The download URL the session holds for a conversion.
HeldUrl(fid) ==
  CASE page = "PDFToPowerPointPage" -> uploadedFiles[fid].downloadUrl
    [] page = "WordToPdfPage" -> downloadUrl
    [] OTHER -> conversionResult.download_url

\* The pages that keep the status answer whole as their result.
KeepsAnswer == {"PDFToJPGPage", "ExcelToPDFPage", "HTMLToPDFPage"}

\* The step into this state was a `completed` status answer with success set,
\* which made the session succeeded (on a page whose code is all in the
\* sources).
JustSucceeded ==
  /\ page \in Sourced
  /\ last.act = "poll" /\ last.status = "completed" /\ last.success /\ Current
  /\ Succeeded(last.fid)

C19_FilesIndependent ==
  [][\A f \in DOMAIN uploadedFiles \cap DOMAIN uploadedFiles' :
       uploadedFiles'[f] # uploadedFiles[f] =>
         \/ \E s \in submits \ submits' : s.fid = f
         \/ \E l \in loops \ loops' : l.fid = f /\ l.st = "fetch"
         \/ /\ uploadedFiles[f].status = "pending"
            /\ uploadedFiles'[f] = [uploadedFiles[f] EXCEPT !.status = "converting",
                                                           !.progress = 0]]_vars

\* File 1 timed out and file 2, polled at the same time, completed with its URL.
C19_Witness ==
  /\ page = "PDFToPowerPointPage"
  /\ DOMAIN uploadedFiles = {1, 2}
  /\ uploadedFiles[1].status = "error"
  /\ uploadedFiles[1].error = "Conversion timeout. Please try again."
  /\ uploadedFiles[2].status = "completed"
  /\ uploadedFiles[2].downloadUrl = Url
  /\ uploadedFiles[2].error = NONE

\* C21: the download route answers a backend 404 with 404 and the JSON error
\* "File not found or has expired", without bytes; it gives that answer for no
\* other failure (an unreachable backend is 503 or 500, any other backend
\* status is not 404); and the handler that fetches the URL saves nothing
\* unless the response is 2xx.
C21_ExpiredDownload ==
  /\ (gateway.route \in {"download", "handleDownload"} /\ gateway.forwarded) =>
       LET b == gateway.backend
           r == gateway.response
           gone == b.net = "ok" /\ b.http = 404
       IN /\ gone => /\ r.http = 404
                     /\ r.error = "File not found or has expired"
                     /\ r.bytes = NONE
          /\ r.http = 404 => gone
  /\ gateway.route = "handleDownload" =>
       (gateway.response.saved # NONE =>
          gateway.forwarded /\ gateway.response.http \in 200..299)

\* The fetching handler asked for an expired file and saved nothing.
C21_Witness ==
  /\ gateway.route = "handleDownload"
  /\ gateway.forwarded
  /\ gateway.backend.net = "ok"
  /\ gateway.backend.http = 404
  /\ gateway.response.http = 404
  /\ gateway.response.saved = NONE

\* C22: for one job a budgeted polling loop issues at most maxAttempts status
\* requests. On each budgeted page every request but the last of a loop is
\* answered by one that raises the attempts counter by one, so the request
\* issued with the counter at n is the loop's request number n + 1.
C22_AtMostMaxAttemptsRequests ==
  (page \in Budgeted /\ last.act = "request") => last.attempts + 1 <= maxAttempts

C24_StatusFilledIn ==
  (/\ gateway.route \in {"status", "status-proxy"}
   /\ gateway.backend.net = "ok" /\ gateway.backend.http = 200 /\ gateway.backend.json)
    => gateway.response.status =
         (IF gateway.backend.status # NONE THEN gateway.backend.status
          ELSE IF gateway.backend.success THEN "completed" ELSE "processing")

\* C24 (amended): the status route /api/status/[conversionId] reports the
\* backend's status when it has one and otherwise `completed` or `processing`
\* by success, whatever error the body carries; the second status proxy hands
\* the body through, so it reports a status exactly when the backend sent one.
C24_StatusFilledInOrPassed ==
  (/\ gateway.route \in {"status", "status-proxy"}
   /\ gateway.backend.net = "ok" /\ gateway.backend.http = 200 /\ gateway.backend.json)
    => LET b == gateway.backend
           r == gateway.response
       IN /\ r.http = 200
          /\ b.status # NONE => r.status = b.status
          /\ (b.status = NONE /\ gateway.route = "status")
               => r.status = (IF b.success THEN "completed" ELSE "processing")
          /\ (b.status = NONE /\ gateway.route = "status-proxy") => r.status = NONE

\* The status route answered `processing` for a body without status whose
\* success is false and which names an error.
C24_Witness ==
  /\ gateway.route = "status"
  /\ gateway.backend.net = "ok" /\ gateway.backend.http = 200 /\ gateway.backend.json
  /\ gateway.backend.status = NONE
  /\ ~gateway.backend.success
  /\ gateway.backend.error # NONE
  /\ gateway.response.status = "processing"
  /\ gateway.response.error = gateway.backend.error

\* ============================================================ liveness of polling
\* C25: a session that is converting after its submit was answered, and is
\* neither succeeded nor failed, has a status request in flight or a poll
\* timer pending (stated for sessions that were never reset, on the pages
\* whose code is all in the sources).
C25_NoStall ==
  (/\ page \in Sourced
   /\ Converting(0) /\ ~Succeeded(0) /\ StoredError(0) = NONE
   /\ submits = {} /\ abandoned = {})
    => loops # {}

\* C26: a status answer for a job that a reset abandoned writes nothing of the
\* session: result, error, progress and the converting flag stay as they were
\* (stated for the pages whose code is all in the sources).
C26_AbandonedJobWritesNothing ==
  [][(page \in Sourced /\ last'.act = "poll" /\ last # last' /\ last'.job \in abandoned)
       => UNCHANGED <<conversionResult, error, progress, isConverting,
                      conversionStatus, downloadUrl>>]_vars

\* C27: while a session with a file selected has a submit in flight or polls a
\* job (none of them abandoned by a reset), its converting flag is true, which
\* disables the convert button, and it has one submit or one polling loop,
\* never two (stated for the pages whose code is all in the sources).
C27_BusySessionIsLocked ==
  (page \in Sourced /\ file # null /\ abandoned = {} /\ submits \cup loops # {})
    => /\ isConverting
       /\ Cardinality(submits) + Cardinality(loops) = 1

\* C28: while a session that was never reset stays converting, no step lowers
\* its progress estimate (stated for the pages whose code is all in the
\* sources).
C28_ProgressMonotone ==
  [][(page \in Sourced /\ abandoned = {} /\ isConverting /\ isConverting')
       => progress' >= progress]_vars

\* C29: a session that holds a success result (none of its jobs abandoned by a
\* reset) shows no error message and has a file selected (stated for the
\* Word->PDF and PDF->JPG pages).
C29_OneOutcome ==
  (page \in {"WordToPdfPage", "PDFToJPGPage"} /\ abandoned = {} /\ Succeeded(0))
    => error = NONE /\ file # null

\* C30: on the batch page the batch-level converting flag is true whenever a
\* listed file has status `converting`.
C30_BatchFlagCoversFiles ==
  (/\ page = "PDFToPowerPointPage"
   /\ \E id \in DOMAIN uploadedFiles : uploadedFiles[id].status = "converting")
    => isConverting

====
